---- MODULE Spec2Model ----
(***************************************************************************)
(* A model of image.c: the threaded 3x3 convolution (convolve and          *)
(* convolve_threader), the single-kernel filters built on it, and the two  *)
(* edge-detection pipelines, run from main on an image already read into   *)
(* global_pixel_data.                                                      *)
(*                                                                         *)
(* A pixel buffer is a row-major sequence of pixels: C's pixel_data[i] is  *)
(* mem[b][i + 1].  Buffers are named by the order in which malloc returned *)
(* them; NULL is 0.                                                        *)
(***************************************************************************)
EXTENDS Integers, Sequences, FiniteSets, TLC

(* ------------------------------ bounds -------------------------------- *)

\* Largest image width, height and pixel count explored.
MaxW == 3
MaxH == 3
MaxPixels == 6
\* Largest worker count explored with the workers interleaved.
MaxThreads == 2
\* Largest image height for which the band computation is explored with
\* the worker count of the source.
MaxBandH == 45

\* The pixels of the largest image followed through failures and signals.
MaxEnvPixels == 4
\* The most failures of pthread_create followed in one run.
MaxCreateFailures == 1

(* -------------------------- program constants ------------------------- *)

MAX_COLOR == 255
NUM_THREADS == 20
HIGH_PASS_THRESHOLD == 60

NULL == 0

\* The kernels hold doubles.  Every weight of the source is a whole number
\* of ten-thousandths, so a weight w is kept as w * KDen; for every channel
\* value p in 0..255 the double product p * w truncates to the same integer
\* as the exact quotient (p * w * KDen) / KDen.
KDen == 10000

IDENTITY_KERNEL_OffCentre ==
    << <<0, 0, 0>>, <<0, 0, 10000>>, <<0, 0, 0>> >>
IDENTITY_KERNEL ==
    << <<0, 0, 0>>, <<0, 10000, 0>>, <<0, 0, 0>> >>
BOX_BLUR_KERNEL ==
    << <<1100, 1100, 1100>>, <<1100, 1200, 1100>>, <<1100, 1100, 1100>> >>
GAUSSIAN_BLUR_KERNEL ==
    << <<625, 1250, 625>>, <<1250, 2500, 1250>>, <<625, 1250, 625>> >>
SHARPEN_KERNEL ==
    << <<0, -10000, 0>>, <<-10000, 50000, -10000>>, <<0, -10000, 0>> >>
EMBOSS_KERNEL ==
    << <<-20000, -10000, 0>>, <<-10000, 10000, 10000>>, <<0, 10000, 20000>> >>
EDGE_DETECT_KERNEL ==
    << <<-20000, -20000, -20000>>, <<-20000, 160000, -20000>>,
       <<-20000, -20000, -20000>> >>
SOBEL_B_KERNEL ==
    << <<-10000, -20000, -10000>>, <<0, 0, 0>>, <<10000, 20000, 10000>> >>
SOBEL_T_KERNEL ==
    << <<10000, 20000, 10000>>, <<0, 0, 0>>, <<-10000, -20000, -10000>> >>
SOBEL_L_KERNEL ==
    << <<10000, 0, -10000>>, <<20000, 0, -20000>>, <<10000, 0, -10000>> >>
SOBEL_R_KERNEL ==
    << <<-10000, 0, 10000>>, <<-20000, 0, 20000>>, <<-10000, 0, 10000>> >>

\* The kernel array a caller passes to convolve, by the caller's name for it.
KernelOf(name) ==
    CASE name = "identity"      -> IDENTITY_KERNEL
      [] name = "box_blur"      -> BOX_BLUR_KERNEL
      [] name = "gaussian_blur" -> GAUSSIAN_BLUR_KERNEL
      [] name = "sharpen"       -> SHARPEN_KERNEL
      [] name = "emboss"        -> EMBOSS_KERNEL
      [] name = "edge_detect"   -> EDGE_DETECT_KERNEL
      [] name = "sobel_t"       -> SOBEL_T_KERNEL
      [] name = "sobel_b"       -> SOBEL_B_KERNEL
      [] name = "sobel_l"       -> SOBEL_L_KERNEL
      [] name = "sobel_r"       -> SOBEL_R_KERNEL

(* ------------------------------- pixels ------------------------------- *)

Channels == {"red", "green", "blue"}

Pixel(r, g, b) == [red |-> r, green |-> g, blue |-> b]

\* What a freshly malloc'ed pixel holds until it is first written.
NoPixel == Pixel(-1, -1, -1)

\* The values a load from outside every buffer may return.
JunkPixels == {Pixel(0, 0, 0), Pixel(255, 255, 255)}

\* (int) of a double n/d: truncation toward zero.
IntCast(n, d) == IF n >= 0 THEN n \div d ELSE -((-n) \div d)

\* (uint8_t) of an int.
Uint8(v) == v % 256

\* The two saturation tests applied to an accumulated channel sum.
ClampWrap(v) == v
Clamp(v) == IF v > MAX_COLOR THEN MAX_COLOR ELSE IF v < 0 THEN 0 ELSE v

\* The MAX(a,b) macro.
MAXMin(a, b) == IF a > b THEN b ELSE a
MAX(a, b) == IF a > b THEN a ELSE b

(* ---------------------------- the threader ---------------------------- *)

\* f_x (f_y) as convolve_threader computes it from xx (yy) and the length
\* n of the axis: negation below zero, then the fold at the far edge.
ReflectSpec(c, n) ==
    LET a == IF c < 0 THEN -c ELSE c
    IN  IF a >= n THEN a - (a - n) * 2 - 1 ELSE a
Reflect(c, n) ==
    LET a == IF c < 0 THEN -c ELSE c
    IN  IF a >= n THEN a - (a - n + 1) * 2 ELSE a

\* Whether pixel_array[f_y][f_x] is a load from inside the source buffer:
\* pixel_array has the rows 0..h-1, and row f_y starts at pixel f_y * w.
InBuffer(f_y, f_x, w, h) ==
    /\ f_y \in 0..(h - 1)
    /\ (f_y * w + f_x) \in 0..(w * h - 1)

\* pixel_array[f_y][f_x]: the pixel of the source buffer, or whatever lies
\* outside it.
Load(src, f_y, f_x, w, h, junk) ==
    IF InBuffer(f_y, f_x, w, h) THEN src[f_y * w + f_x + 1] ELSE junk

\* One tap: the addend (int)(pixel.ch * kernel[m_y][m_x]) for the
\* neighbour (yy, xx) of (y, x).
Tap(src, kernel, w, h, junk, y, x, yy, xx, ch) ==
    LET f_x == Reflect(xx, w)
        f_y == Reflect(yy, h)
        m_y == y - yy + 1
        m_x == xx - x + 1
    IN  IntCast(Load(src, f_y, f_x, w, h, junk)[ch] * kernel[m_y + 1][m_x + 1],
                KDen)

\* r, g or b when the two inner loops are done.
Accumulate(src, kernel, w, h, junk, y, x, ch) ==
    LET T(yy, xx) == Tap(src, kernel, w, h, junk, y, x, yy, xx, ch)
        Row(yy) == T(yy, x - 1) + T(yy, x) + T(yy, x + 1)
    IN  Row(y - 1) + Row(y) + Row(y + 1)

\* Lines 640-648: the pixel stored for the sums r, g and b.
Saturate(sum) == [ch \in Channels |-> Uint8(Clamp(sum[ch]))]

\* The pixel stored at new_pixel_array[y][x].
ConvolvePixel(src, kernel, w, h, junk, y, x) ==
    Saturate([ch \in Channels |->
                 Accumulate(src, kernel, w, h, junk, y, x, ch)])

\* The (yy, xx, f_y, f_x) of the nine loads made for the pixel (y, x).
Reads(w, h, y, x) ==
    {[yy |-> yy, xx |-> xx, f_y |-> Reflect(yy, h), f_x |-> Reflect(xx, w)] :
        yy \in (y - 1)..(y + 1), xx \in (x - 1)..(x + 1)}

\* Whether one of the loads for the pixel (y, x) leaves the source buffer.
LoadsOutside(w, h, y, x) ==
    \E rd \in Reads(w, h, y, x) : ~InBuffer(rd.f_y, rd.f_x, w, h)

\* Where new_pixel_array[y][x] lies in the destination buffer.
DestIndexSwapped(y, x, w) == x * w + y + 1
DestIndex(y, x, w) == y * w + x + 1

\* start_y and end_y of info_structs[i], for n workers and image height h;
\* the division is C's, which rounds toward zero.
BandStart(i, h, n) == IntCast(h, n) * i
BandEndEqual(i, h, n) == IntCast(h, n) * (i + 1)
BandEnd(i, h, n) == IF i < n - 1 THEN IntCast(h, n) * (i + 1) ELSE h

(* ---------------------- the pointwise transforms ---------------------- *)

\* greyscale's loop body.
GreyPixel(p) ==
    LET average == Uint8((p.red + p.green + p.blue) \div 3)
    IN  Pixel(average, average, average)

\* set_dim_to_black's loop body.
DimPixel(p) ==
    LET average == Uint8((p.red + p.green + p.blue) \div 3)
    IN  IF average < HIGH_PASS_THRESHOLD THEN Pixel(0, 0, 0) ELSE p

(* ------------------------------- state -------------------------------- *)

VARIABLES
    width,              \* info->width
    height,             \* info->height
    nthreads,           \* the worker count the program was built with
    info_pixel_data,    \* info->pixel_data
    global_pixel_data,  \* the global of that name
    mem,                \* the live pixel buffers, by name
    nalloc,             \* how many buffers malloc has returned
    freed,              \* the arguments of the calls of free, in order
    pc,                 \* the call stack of the main thread, innermost first
    retval,             \* what the last convolve returned
    kernel,             \* convolve's kernel argument, by name
    pixel_data,         \* convolve's local pixel_data: the source buffer
    new_pixel_data,     \* convolve's local new_pixel_data
    junk,               \* what lies outside the buffers during this call
    cv_i,               \* convolve's creation loop: workers created
    cv_j,               \* convolve's join loop: workers joined
    info_structs,       \* start_y and end_y of each worker
    threads,            \* each worker: its state, position and last pixel
    sobel,              \* canny's sobel_t_pd, sobel_b_pd, sobel_l_pd, sobel_r_pd
    ci,                 \* canny's combine loop index i
    made,               \* for each buffer convolve filled: from what
    env_failures        \* how many times pthread_create has failed

vars ==
    <<width, height, nthreads, info_pixel_data, global_pixel_data, mem, nalloc,
      freed, pc, retval, kernel, pixel_data, new_pixel_data, junk, cv_i, cv_j,
      info_structs, threads, sobel, ci, made, env_failures>>

image_size == width * height

Workers == 0..(nthreads - 1)

\* The filters that are one convolve and a replacement of the image.
ConvFilters == {"identity", "box_blur", "gaussian_blur", "sharpen", "emboss"}

\* What main may have been built to call.
MainCalls == ConvFilters \cup {"simple_edge_detection", "canny_edge_detection"}

SobelNames == {"sobel_t", "sobel_b", "sobel_l", "sobel_r"}

\* The Sobel convolution canny runs after the one named k ("" after the last).
NextSobel(k) ==
    CASE k = "sobel_t" -> "sobel_b"
      [] k = "sobel_b" -> "sobel_l"
      [] k = "sobel_l" -> "sobel_r"
      [] k = "sobel_r" -> ""

\* A frame of the call stack: the function, the place in it, and for
\* canny's four convolutions which one.
Frame(fn, at) == <<fn, at, "">>

Top == Head(pc)

InConvolve == Top[1] = "convolve"

Crashed == << <<"process", "crashed", "">> >>

\* The first frame of a function main calls.
Entry(f) ==
    IF f \in ConvFilters THEN Frame(f, "call") ELSE Frame(f, "greyscale")

Unborn == [state |-> "unborn", y |-> 0, x |-> 0, last |-> <<>>]

NoBand == [start_y |-> 0, end_y |-> 0]

\* The values outside the buffers that a call can meet.  Both axes of two
\* or more pixels keep every load inside the buffer, and the value is then
\* never read.
JunkChoices ==
    IF width = 1 \/ height = 1 THEN JunkPixels ELSE {Pixel(0, 0, 0)}

\* malloc's result: a buffer that is not live and never was.
Malloc == nalloc + 1

\* mem after free(b).
FreeKeepsBuffer(m, b) == m
Free(m, b) == [x \in (DOMAIN m) \ {b} |-> m[x]]

\* A buffer after greyscale's loop, and after set_dim_to_black's.
GreyBuffer(buf) == [i \in DOMAIN buf |-> GreyPixel(buf[i])]
DimBuffer(buf) == [i \in DOMAIN buf |-> DimPixel(buf[i])]

\* The input images of n pixels: all dark, all light, and dark with one
\* light pixel, at every place.
Images(n) ==
    LET Light == Pixel(255, 255, 255)
        Dark == Pixel(0, 100, 250)
        Places == {{}, 1..n} \cup {{k} : k \in 1..n}
    IN  {[i \in 1..n |-> IF i \in S THEN Light ELSE Dark] : S \in Places}

(* -------------------------------- Init -------------------------------- *)

\* main has read the image: global_pixel_data holds it and info describes it.
Init ==
    /\ width \in 1..MaxW
    /\ height \in 1..MaxH
    /\ width * height <= MaxPixels
    /\ nthreads \in 1..MaxThreads
    /\ \E img \in Images(width * height) : mem = (1 :> img)
    /\ nalloc = 1
    /\ freed = <<>>
    /\ global_pixel_data = 1
    /\ info_pixel_data = 1
    /\ pc = <<Frame("main", "call")>>
    /\ retval = NULL
    /\ kernel = "identity"
    /\ pixel_data = NULL
    /\ new_pixel_data = NULL
    /\ junk = Pixel(0, 0, 0)
    /\ cv_i = 0
    /\ cv_j = 0
    /\ info_structs = [i \in Workers |-> NoBand]
    /\ threads = [i \in Workers |-> Unborn]
    /\ sobel = [k \in SobelNames |-> NULL]
    /\ ci = 0
    /\ made = <<>>
    /\ env_failures = 0

(* ------------------------------ convolve ------------------------------ *)

\* Lines 544-567: the destination buffer is obtained and the two row
\* tables are built over the source and the destination.
Convolve_Malloc ==
    /\ Top = Frame("convolve", "malloc")
    /\ \E g \in JunkChoices : junk' = g
    /\ new_pixel_data' = Malloc
    /\ nalloc' = nalloc + 1
    /\ mem' = (Malloc :> [i \in 1..image_size |-> NoPixel]) @@ mem
    /\ pixel_data' = info_pixel_data
    /\ made' = (Malloc :> [source |-> info_pixel_data, kernel |-> kernel,
                           junk |-> junk']) @@ made
    /\ cv_i' = 0
    /\ cv_j' = 0
    /\ info_structs' = [i \in Workers |-> NoBand]
    /\ threads' = [i \in Workers |-> Unborn]
    /\ pc' = <<Frame("convolve", "create")>> \o Tail(pc)
    /\ UNCHANGED <<width, height, nthreads, info_pixel_data, global_pixel_data,
                   freed, retval, kernel, sobel, ci, env_failures>>

\* Lines 571-588: info_structs[cv_i] is filled in and its worker created;
\* after the last one the join loop begins.
Convolve_Create ==
    /\ Top = Frame("convolve", "create")
    /\ cv_i < nthreads
    /\ info_structs' = [info_structs EXCEPT ![cv_i] =
            [start_y |-> BandStart(cv_i, height, nthreads),
             end_y |-> BandEnd(cv_i, height, nthreads)]]
    /\ threads' = [threads EXCEPT ![cv_i] =
            [state |-> "running", y |-> BandStart(cv_i, height, nthreads),
             x |-> 0, last |-> <<>>]]
    /\ cv_i' = cv_i + 1
    /\ pc' = IF cv_i + 1 = nthreads
             THEN <<Frame("convolve", "join")>> \o Tail(pc)
             ELSE pc
    /\ UNCHANGED <<width, height, nthreads, info_pixel_data, global_pixel_data,
                   mem, nalloc, freed, retval, kernel, pixel_data,
                   new_pixel_data, junk, cv_j, sobel, ci, made, env_failures>>

\* Whether pthread_join(threads[i]) returns.
JoinReadyNoWait(i) == TRUE
JoinReady(i) == threads[i].state = "exited"

\* Lines 590-593: one pthread_join.
Convolve_Join ==
    /\ Top = Frame("convolve", "join")
    /\ cv_j < nthreads
    /\ JoinReady(cv_j)
    /\ cv_j' = cv_j + 1
    /\ pc' = IF cv_j + 1 = nthreads
             THEN <<Frame("convolve", "return")>> \o Tail(pc)
             ELSE pc
    /\ UNCHANGED <<width, height, nthreads, info_pixel_data, global_pixel_data,
                   mem, nalloc, freed, retval, kernel, pixel_data,
                   new_pixel_data, junk, cv_i, info_structs, threads, sobel,
                   ci, made, env_failures>>

\* Line 594.
Convolve_Return ==
    /\ Top = Frame("convolve", "return")
    /\ retval' = new_pixel_data
    /\ pc' = Tail(pc)
    /\ UNCHANGED <<width, height, nthreads, info_pixel_data, global_pixel_data,
                   mem, nalloc, freed, kernel, pixel_data, new_pixel_data,
                   junk, cv_i, cv_j, info_structs, threads, sobel, ci, made,
                   env_failures>>

(* -------------------------- convolve_threader ------------------------- *)

\* The buffer the rows of new_pixel_array lie in.
DestBufferIsSource == pixel_data
DestBuffer == new_pixel_data

\* Lines 618-649, one pass of the loop over x: the nine loads, the three
\* sums, the saturation and the store of one destination pixel; after the
\* last pixel of the band the loops end and the worker returns (line 651).
Worker_Pixel(i) ==
    LET t == threads[i]
        acc == [ch \in Channels |->
                   Accumulate(mem[pixel_data], KernelOf(kernel), width, height,
                              junk, t.y, t.x, ch)]
        px == Saturate(acc)
        y_next == IF t.x + 1 < width THEN t.y ELSE t.y + 1
    IN  /\ InConvolve
        /\ t.state = "running"
        /\ t.y < info_structs[i].end_y
        /\ width > 0
        /\ mem' = [mem EXCEPT ![DestBuffer][DestIndex(t.y, t.x, width)] = px]
        /\ threads' = [threads EXCEPT ![i] =
               [state |-> IF y_next < info_structs[i].end_y
                          THEN "running" ELSE "exited",
                y |-> y_next,
                x |-> IF t.x + 1 < width THEN t.x + 1 ELSE 0,
                last |-> [y |-> t.y, x |-> t.x, sum |-> acc,
                          loads |-> Reads(width, height, t.y, t.x)]]]
        /\ UNCHANGED <<width, height, nthreads, info_pixel_data,
                       global_pixel_data, nalloc, freed, pc, retval, kernel,
                       pixel_data, new_pixel_data, junk, cv_i, cv_j,
                       info_structs, sobel, ci, made, env_failures>>

\* Lines 616, 618 and 651 for a worker that has no pixel to store, its band
\* being empty or the rows having no column: it returns.
Worker_Exit(i) ==
    /\ InConvolve
    /\ threads[i].state = "running"
    /\ threads[i].y >= info_structs[i].end_y \/ width <= 0
    /\ threads' = [threads EXCEPT ![i].state = "exited"]
    /\ UNCHANGED <<width, height, nthreads, info_pixel_data, global_pixel_data,
                   mem, nalloc, freed, pc, retval, kernel, pixel_data,
                   new_pixel_data, junk, cv_i, cv_j, info_structs, sobel, ci,
                   made, env_failures>>

\* Lines 635-637 when a load leaves the source buffer: the load may fault
\* instead of returning a value, and the process ends.
Worker_Fault(i) ==
    /\ InConvolve
    /\ threads[i].state = "running"
    /\ threads[i].y < info_structs[i].end_y
    /\ width > 0
    /\ LoadsOutside(width, height, threads[i].y, threads[i].x)
    /\ pc' = Crashed
    /\ UNCHANGED <<width, height, nthreads, info_pixel_data, global_pixel_data,
                   mem, nalloc, freed, retval, kernel, pixel_data,
                   new_pixel_data, junk, cv_i, cv_j, info_structs, threads,
                   sobel, ci, made, env_failures>>

(* ------------------------- single-kernel filters ---------------------- *)

\* identity, box_blur, gaussian_blur, sharpen, emboss: the call of convolve
\* with the filter's kernel.
Filter_Call ==
    \E f \in ConvFilters :
        /\ Top = Frame(f, "call")
        /\ kernel' = f
        /\ pc' = <<Frame("convolve", "malloc"), Frame(f, "replace")>> \o Tail(pc)
        /\ UNCHANGED <<width, height, nthreads, info_pixel_data,
                       global_pixel_data, mem, nalloc, freed, retval,
                       pixel_data, new_pixel_data, junk, cv_i, cv_j,
                       info_structs, threads, sobel, ci, made, env_failures>>

\* The same five: free(info->pixel_data); info->pixel_data = <result>.
Filter_Replace ==
    \E f \in ConvFilters :
        /\ Top = Frame(f, "replace")
        /\ mem' = Free(mem, info_pixel_data)
        /\ freed' = Append(freed, info_pixel_data)
        /\ info_pixel_data' = retval
        /\ pc' = Tail(pc)
        /\ UNCHANGED <<width, height, nthreads, global_pixel_data, nalloc,
                       retval, kernel, pixel_data, new_pixel_data, junk, cv_i,
                       cv_j, info_structs, threads, sobel, ci, made,
                       env_failures>>

(* ------------------------ simple_edge_detection ----------------------- *)

Simple_Greyscale ==
    /\ Top = Frame("simple_edge_detection", "greyscale")
    /\ mem' = [mem EXCEPT ![info_pixel_data] = GreyBuffer(@)]
    /\ pc' = <<Frame("simple_edge_detection", "gaussian_blur")>> \o Tail(pc)
    /\ UNCHANGED <<width, height, nthreads, info_pixel_data, global_pixel_data,
                   nalloc, freed, retval, kernel, pixel_data, new_pixel_data,
                   junk, cv_i, cv_j, info_structs, threads, sobel, ci, made,
                   env_failures>>

Simple_Blur ==
    /\ Top = Frame("simple_edge_detection", "gaussian_blur")
    /\ pc' = <<Frame("gaussian_blur", "call"),
               Frame("simple_edge_detection", "convolve")>> \o Tail(pc)
    /\ UNCHANGED <<width, height, nthreads, info_pixel_data, global_pixel_data,
                   mem, nalloc, freed, retval, kernel, pixel_data,
                   new_pixel_data, junk, cv_i, cv_j, info_structs, threads,
                   sobel, ci, made, env_failures>>

Simple_Convolve ==
    /\ Top = Frame("simple_edge_detection", "convolve")
    /\ kernel' = "edge_detect"
    /\ pc' = <<Frame("convolve", "malloc"),
               Frame("simple_edge_detection", "replace")>> \o Tail(pc)
    /\ UNCHANGED <<width, height, nthreads, info_pixel_data, global_pixel_data,
                   mem, nalloc, freed, retval, pixel_data, new_pixel_data,
                   junk, cv_i, cv_j, info_structs, threads, sobel, ci, made,
                   env_failures>>

Simple_Replace ==
    /\ Top = Frame("simple_edge_detection", "replace")
    /\ mem' = Free(mem, info_pixel_data)
    /\ freed' = Append(freed, info_pixel_data)
    /\ info_pixel_data' = retval
    /\ pc' = <<Frame("simple_edge_detection", "set_dim")>> \o Tail(pc)
    /\ UNCHANGED <<width, height, nthreads, global_pixel_data, nalloc, retval,
                   kernel, pixel_data, new_pixel_data, junk, cv_i, cv_j,
                   info_structs, threads, sobel, ci, made, env_failures>>

Simple_SetDim ==
    /\ Top = Frame("simple_edge_detection", "set_dim")
    /\ mem' = [mem EXCEPT ![info_pixel_data] = DimBuffer(@)]
    /\ pc' = Tail(pc)
    /\ UNCHANGED <<width, height, nthreads, info_pixel_data, global_pixel_data,
                   nalloc, freed, retval, kernel, pixel_data, new_pixel_data,
                   junk, cv_i, cv_j, info_structs, threads, sobel, ci, made,
                   env_failures>>

(* ------------------------ canny_edge_detection ------------------------ *)

Canny_Greyscale ==
    /\ Top = Frame("canny_edge_detection", "greyscale")
    /\ mem' = [mem EXCEPT ![info_pixel_data] = GreyBuffer(@)]
    /\ pc' = <<Frame("canny_edge_detection", "gaussian_blur")>> \o Tail(pc)
    /\ UNCHANGED <<width, height, nthreads, info_pixel_data, global_pixel_data,
                   nalloc, freed, retval, kernel, pixel_data, new_pixel_data,
                   junk, cv_i, cv_j, info_structs, threads, sobel, ci, made,
                   env_failures>>

Canny_Blur ==
    /\ Top = Frame("canny_edge_detection", "gaussian_blur")
    /\ pc' = <<Frame("gaussian_blur", "call"),
               <<"canny_edge_detection", "convolve", "sobel_t">> >> \o Tail(pc)
    /\ UNCHANGED <<width, height, nthreads, info_pixel_data, global_pixel_data,
                   mem, nalloc, freed, retval, kernel, pixel_data,
                   new_pixel_data, junk, cv_i, cv_j, info_structs, threads,
                   sobel, ci, made, env_failures>>

\* Lines 715-725: one of the four calls convolve(info, sobel_k_kernel).
Canny_Convolve ==
    \E k \in SobelNames :
        /\ Top = <<"canny_edge_detection", "convolve", k>>
        /\ kernel' = k
        /\ pc' = <<Frame("convolve", "malloc"),
                   <<"canny_edge_detection", "store", k>> >> \o Tail(pc)
        /\ UNCHANGED <<width, height, nthreads, info_pixel_data,
                       global_pixel_data, mem, nalloc, freed, retval,
                       pixel_data, new_pixel_data, junk, cv_i, cv_j,
                       info_structs, threads, sobel, ci, made, env_failures>>

\* The same lines: sobel_k_pd = <result>; after the fourth, line 731's i = 0.
Canny_Store ==
    \E k \in SobelNames :
        /\ Top = <<"canny_edge_detection", "store", k>>
        /\ sobel' = [sobel EXCEPT ![k] = retval]
        /\ ci' = 0
        /\ pc' = IF NextSobel(k) = ""
                 THEN <<Frame("canny_edge_detection", "combine")>> \o Tail(pc)
                 ELSE << <<"canny_edge_detection", "convolve", NextSobel(k)>> >>
                      \o Tail(pc)
        /\ UNCHANGED <<width, height, nthreads, info_pixel_data,
                       global_pixel_data, mem, nalloc, freed, retval, kernel,
                       pixel_data, new_pixel_data, junk, cv_i, cv_j,
                       info_structs, threads, made, env_failures>>

\* Lines 733-735 for one channel of pixel i.
CombineChannel(i, ch) ==
    MAX(MAX(mem[sobel["sobel_t"]][i + 1][ch], mem[sobel["sobel_b"]][i + 1][ch]),
        MAX(mem[sobel["sobel_l"]][i + 1][ch], mem[sobel["sobel_r"]][i + 1][ch]))

\* Lines 731-740: one pass of the combine loop.
Canny_Combine ==
    /\ Top = Frame("canny_edge_detection", "combine")
    /\ ci < image_size
    /\ mem' = [mem EXCEPT ![info_pixel_data][ci + 1] =
                  [ch \in Channels |-> Uint8(CombineChannel(ci, ch))]]
    /\ ci' = ci + 1
    /\ UNCHANGED <<width, height, nthreads, info_pixel_data, global_pixel_data,
                   nalloc, freed, pc, retval, kernel, pixel_data,
                   new_pixel_data, junk, cv_i, cv_j, info_structs, threads,
                   sobel, made, env_failures>>

\* Lines 742-745: the four frees, once the loop is done.
Canny_Free ==
    /\ Top = Frame("canny_edge_detection", "combine")
    /\ ci >= image_size
    /\ mem' = Free(Free(Free(Free(mem, sobel["sobel_t"]), sobel["sobel_b"]),
                        sobel["sobel_l"]), sobel["sobel_r"])
    /\ freed' = freed \o <<sobel["sobel_t"], sobel["sobel_b"],
                           sobel["sobel_l"], sobel["sobel_r"]>>
    /\ pc' = <<Frame("canny_edge_detection", "set_dim")>> \o Tail(pc)
    /\ UNCHANGED <<width, height, nthreads, info_pixel_data, global_pixel_data,
                   nalloc, retval, kernel, pixel_data, new_pixel_data, junk,
                   cv_i, cv_j, info_structs, threads, sobel, ci, made,
                   env_failures>>

Canny_SetDim ==
    /\ Top = Frame("canny_edge_detection", "set_dim")
    /\ mem' = [mem EXCEPT ![info_pixel_data] = DimBuffer(@)]
    /\ pc' = Tail(pc)
    /\ UNCHANGED <<width, height, nthreads, info_pixel_data, global_pixel_data,
                   nalloc, freed, retval, kernel, pixel_data, new_pixel_data,
                   junk, cv_i, cv_j, info_structs, threads, sobel, ci, made,
                   env_failures>>

(* -------------------------------- main -------------------------------- *)

\* Lines 241-261: the processing call main was built with.
Main_Call ==
    /\ Top = Frame("main", "call")
    /\ \E f \in MainCalls : pc' = <<Entry(f), Frame("main", "store")>>
    /\ UNCHANGED <<width, height, nthreads, info_pixel_data, global_pixel_data,
                   mem, nalloc, freed, retval, kernel, pixel_data,
                   new_pixel_data, junk, cv_i, cv_j, info_structs, threads,
                   sobel, ci, made, env_failures>>

\* Line 267.
Main_Store ==
    /\ Top = Frame("main", "store")
    /\ global_pixel_data' = info_pixel_data
    /\ pc' = <<Frame("main", "cleanup")>>
    /\ UNCHANGED <<width, height, nthreads, info_pixel_data, mem, nalloc,
                   freed, retval, kernel, pixel_data, new_pixel_data, junk,
                   cv_i, cv_j, info_structs, threads, sobel, ci, made,
                   env_failures>>

\* Lines 294-295 with cleanup's lines 312-316.
Main_Cleanup ==
    /\ Top = Frame("main", "cleanup")
    /\ IF global_pixel_data # NULL
       THEN /\ mem' = Free(mem, global_pixel_data)
            /\ freed' = Append(freed, global_pixel_data)
            /\ global_pixel_data' = NULL
       ELSE UNCHANGED <<mem, freed, global_pixel_data>>
    /\ pc' = <<Frame("main", "exit")>>
    /\ UNCHANGED <<width, height, nthreads, info_pixel_data, nalloc, retval,
                   kernel, pixel_data, new_pixel_data, junk, cv_i, cv_j,
                   info_structs, threads, sobel, ci, made, env_failures>>

(* ---------------------------- specification --------------------------- *)

Next ==
    \/ Main_Call
    \/ Main_Store
    \/ Main_Cleanup
    \/ Filter_Call
    \/ Filter_Replace
    \/ Simple_Greyscale
    \/ Simple_Blur
    \/ Simple_Convolve
    \/ Simple_Replace
    \/ Simple_SetDim
    \/ Canny_Greyscale
    \/ Canny_Blur
    \/ Canny_Convolve
    \/ Canny_Store
    \/ Canny_Combine
    \/ Canny_Free
    \/ Canny_SetDim
    \/ Convolve_Malloc
    \/ Convolve_Create
    \/ Convolve_Join
    \/ Convolve_Return
    \/ \E i \in Workers : Worker_Pixel(i)
    \/ \E i \in Workers : Worker_Exit(i)
    \/ \E i \in Workers : Worker_Fault(i)

Spec == Init /\ [][Next]_vars

(***************************************************************************)
(* The band computation alone, for the worker count of the source: the    *)
(* image height is drawn from 1..MaxBandH and convolve's creation loop    *)
(* fills info_structs, one worker at a time.                               *)
(***************************************************************************)

InitBands ==
    /\ width = 1
    /\ height \in 1..MaxBandH
    /\ nthreads = NUM_THREADS
    /\ mem = (1 :> <<>>)
    /\ nalloc = 1
    /\ freed = <<>>
    /\ global_pixel_data = 1
    /\ info_pixel_data = 1
    /\ pc = <<Frame("convolve", "create"), Frame("identity", "replace"),
              Frame("main", "store")>>
    /\ retval = NULL
    /\ kernel = "identity"
    /\ pixel_data = 1
    /\ new_pixel_data = NULL
    /\ junk = Pixel(0, 0, 0)
    /\ cv_i = 0
    /\ cv_j = 0
    /\ info_structs = [i \in Workers |-> NoBand]
    /\ threads = [i \in Workers |-> Unborn]
    /\ sobel = [k \in SobelNames |-> NULL]
    /\ ci = 0
    /\ made = <<>>
    /\ env_failures = 0

NextBands == Convolve_Create

SpecBands == InitBands /\ [][NextBands]_vars

(***************************************************************************)
(* The program in the environment it can meet: the header may carry a     *)
(* dimension that is not positive, malloc may return NULL, pthread_create *)
(* may fail, and SIGINT may arrive at any moment.                          *)
(***************************************************************************)

\* The widths and heights a header can carry, as far as the model follows
\* them: the int32 at byte 18 or 22 is signed.
HeaderDims(max) == (-1)..max

\* Lines 312-316 of cleanup: the global buffer is freed if there is one.
cleanup ==
    IF global_pixel_data # NULL
    THEN /\ mem' = Free(mem, global_pixel_data)
         /\ freed' = Append(freed, global_pixel_data)
         /\ global_pixel_data' = NULL
    ELSE UNCHANGED <<mem, freed, global_pixel_data>>

\* Whether cleanup's free is given a buffer that is no longer live.
FreesDeadBuffer ==
    global_pixel_data # NULL /\ global_pixel_data \notin DOMAIN mem

\* Where the process is after cleanup() and exit() called with the stack
\* given: a free of a dead buffer may also abort it.
AfterCleanup(stack) == IF FreesDeadBuffer THEN {stack, Crashed} ELSE {stack}

\* Whether the process has neither exited nor crashed.
Alive == pc # Crashed /\ Top[2] # "exit"

\* main has read the image, whatever dimensions the header carried: a
\* negative width * height makes read_global_pixel_data's malloc fail, so
\* main gets here with a product of zero or more.
InitEnv ==
    /\ width \in HeaderDims(MaxW)
    /\ height \in HeaderDims(MaxH)
    /\ width * height >= 0
    /\ width * height <= MaxEnvPixels
    /\ nthreads \in 1..MaxThreads
    /\ \E img \in Images(width * height) : mem = (1 :> img)
    /\ nalloc = 1
    /\ freed = <<>>
    /\ global_pixel_data = 1
    /\ info_pixel_data = 1
    /\ pc = <<Frame("main", "call")>>
    /\ retval = NULL
    /\ kernel = "identity"
    /\ pixel_data = NULL
    /\ new_pixel_data = NULL
    /\ junk = Pixel(0, 0, 0)
    /\ cv_i = 0
    /\ cv_j = 0
    /\ info_structs = [i \in Workers |-> NoBand]
    /\ threads = [i \in Workers |-> Unborn]
    /\ sobel = [k \in SobelNames |-> NULL]
    /\ ci = 0
    /\ made = <<>>
    /\ env_failures = 0

\* Lines 548-554 when malloc returns NULL: cleanup() and exit().
Convolve_MallocFail ==
    /\ Top = Frame("convolve", "malloc")
    /\ new_pixel_data' = NULL
    /\ cleanup
    /\ pc' \in AfterCleanup(<<Frame("convolve", "exit")>> \o Tail(pc))
    /\ UNCHANGED <<width, height, nthreads, info_pixel_data, nalloc, retval,
                   kernel, pixel_data, junk, cv_i, cv_j, info_structs,
                   threads, sobel, ci, made, env_failures>>

\* Lines 557 and 563 when image_height is not positive: an array of that
\* many row pointers is undefined, and the process may end there.
Convolve_BadArray ==
    /\ Top = Frame("convolve", "malloc")
    /\ height <= 0
    /\ pc' = Crashed
    /\ UNCHANGED <<width, height, nthreads, info_pixel_data, global_pixel_data,
                   mem, nalloc, freed, retval, kernel, pixel_data,
                   new_pixel_data, junk, cv_i, cv_j, info_structs, threads,
                   sobel, ci, made, env_failures>>

\* Lines 573-579 and 582-588 when pthread_create fails: its result is not
\* looked at, no worker runs over the band, and threads[cv_i] is not set.
Convolve_CreateFail ==
    /\ Top = Frame("convolve", "create")
    /\ cv_i < nthreads
    /\ info_structs' = [info_structs EXCEPT ![cv_i] =
            [start_y |-> BandStart(cv_i, height, nthreads),
             end_y |-> BandEnd(cv_i, height, nthreads)]]
    /\ threads' = [threads EXCEPT ![cv_i] =
            [state |-> "failed", y |-> BandStart(cv_i, height, nthreads),
             x |-> 0, last |-> <<>>]]
    /\ env_failures < MaxCreateFailures
    /\ env_failures' = env_failures + 1
    /\ cv_i' = cv_i + 1
    /\ pc' = IF cv_i + 1 = nthreads
             THEN <<Frame("convolve", "join")>> \o Tail(pc)
             ELSE pc
    /\ UNCHANGED <<width, height, nthreads, info_pixel_data, global_pixel_data,
                   mem, nalloc, freed, retval, kernel, pixel_data,
                   new_pixel_data, junk, cv_j, sobel, ci, made>>

\* Line 592 for a worker that was not created: pthread_join is given a
\* pthread_t no one has set, and either returns, its result not looked at,
\* or ends the process.
Convolve_JoinFailed ==
    /\ Top = Frame("convolve", "join")
    /\ cv_j < nthreads
    /\ threads[cv_j].state = "failed"
    /\ \/ /\ cv_j' = cv_j + 1
          /\ pc' = IF cv_j + 1 = nthreads
                   THEN <<Frame("convolve", "return")>> \o Tail(pc)
                   ELSE pc
       \/ /\ cv_j' = cv_j
          /\ pc' = Crashed
    /\ UNCHANGED <<width, height, nthreads, info_pixel_data, global_pixel_data,
                   mem, nalloc, freed, retval, kernel, pixel_data,
                   new_pixel_data, junk, cv_i, info_structs, threads, sobel,
                   ci, made, env_failures>>

\* Lines 319-324, run when SIGINT arrives: cleanup() and exit(), on top of
\* whatever the process was doing.
SIGINT_handler ==
    /\ Alive
    /\ cleanup
    /\ pc' \in AfterCleanup(<<Frame("SIGINT_handler", "exit")>> \o pc)
    /\ UNCHANGED <<width, height, nthreads, info_pixel_data, nalloc, retval,
                   kernel, pixel_data, new_pixel_data, junk, cv_i, cv_j,
                   info_structs, threads, sobel, ci, made, env_failures>>

NextEnv ==
    \/ Next
    \/ Convolve_MallocFail
    \/ Convolve_BadArray
    \/ Convolve_CreateFail
    \/ Convolve_JoinFailed
    \/ SIGINT_handler

SpecEnv == InitEnv /\ [][NextEnv]_vars

(* ------------------------------- claims ------------------------------- *)

\* The workers whose band holds row y.
BandsHolding(y) ==
    {i \in Workers :
        info_structs[i].start_y <= y /\ y < info_structs[i].end_y}

\* C1: once convolve has created its workers, their row ranges
\* [start_y, end_y) partition [0, height): each of the first nthreads - 1
\* bands holds height \div nthreads rows and starts where the one before it
\* ends, the last band holds all the rows that remain, and every row lies in
\* exactly one band.
C1_BandsPartitionRows ==
    Top = Frame("convolve", "join") =>
        /\ \A y \in 0..(height - 1) : Cardinality(BandsHolding(y)) = 1
        /\ \A i \in Workers :
              /\ 0 <= info_structs[i].start_y
              /\ info_structs[i].start_y <= info_structs[i].end_y
              /\ info_structs[i].end_y <= height
              /\ i < nthreads - 1 =>
                    /\ info_structs[i].end_y - info_structs[i].start_y
                           = height \div nthreads
                    /\ info_structs[i + 1].start_y = info_structs[i].end_y
        /\ info_structs[nthreads - 1].end_y = height
        /\ info_structs[nthreads - 1].end_y - info_structs[nthreads - 1].start_y
               = height - (nthreads - 1) * (height \div nthreads)

\* C1's case: all twenty workers created for an image whose height is not
\* a multiple of the worker count, so the last band is the longer one.
C1_Witness ==
    /\ Top = Frame("convolve", "join")
    /\ nthreads = NUM_THREADS
    /\ height = 2 * NUM_THREADS + 5
    /\ info_structs[0].end_y = 2
    /\ info_structs[NUM_THREADS - 1].start_y = 38

\* The destination one thread fills when it takes the rows 0..h-1 in
\* order, each from left to right.
ConvolveSeq(src, k, w, h, outside) ==
    [i \in 1..(w * h) |->
        ConvolvePixel(src, k, w, h, outside, (i - 1) \div w, (i - 1) % w)]

\* The workers that have stored a pixel in this call.
Stored == {i \in Workers : threads[i].last # <<>>}

\* The pixel worker i stored last, as the destination holds it.
LastStored(i) ==
    mem[new_pixel_data][threads[i].last.y * width + threads[i].last.x + 1]

\* C2: when convolve is about to return, the destination holds what one
\* sequential pass over all rows computes from the source and the kernel,
\* whatever the worker count and however the workers were interleaved.
C2_ResultIsSequentialPass ==
    Top = Frame("convolve", "return") =>
        mem[new_pixel_data] =
            ConvolveSeq(mem[pixel_data], KernelOf(kernel), width, height, junk)

\* C2's case: two workers, one row each, have blurred a 2x2 image that is
\* not uniform.
C2_Witness ==
    /\ Top = Frame("convolve", "return")
    /\ kernel = "box_blur"
    /\ nthreads = 2 /\ width = 2 /\ height = 2
    /\ Stored = Workers
    /\ mem[pixel_data][1] # mem[pixel_data][2]

\* C3: outside convolve no worker is running, and convolve reaches its
\* return statement only with every worker exited at the end of its band.
C3_JoinedBeforeReturn ==
    /\ (~InConvolve /\ pc # Crashed) =>
           \A i \in Workers : threads[i].state # "running"
    /\ Top = Frame("convolve", "return") =>
           \A i \in Workers :
              /\ threads[i].state = "exited"
              /\ threads[i].y = info_structs[i].end_y

\* C3's case: canny is about to store the result of its first Sobel
\* convolution, which two workers computed, and to start the next one.
C3_Witness ==
    /\ Top = <<"canny_edge_detection", "store", "sobel_t">>
    /\ nthreads = 2 /\ height = 2
    /\ Stored = Workers

\* The buffers free has been called on.
FreedBuffers == {freed[k] : k \in DOMAIN freed}

\* The source buffer of the convolve call in progress.
SourceOfCall ==
    IF Top = Frame("convolve", "malloc") THEN info_pixel_data ELSE pixel_data

\* C4: no step taken inside convolve changes a pixel of the source or the
\* image's width or height; the destination malloc returns is a buffer that
\* was neither live nor ever freed, of width * height pixels; and the
\* buffer returned is that destination, distinct from the source, which
\* info->pixel_data still names.
C4_SourceUnchanged ==
    [][InConvolve =>
          /\ SourceOfCall \in DOMAIN mem'
          /\ mem'[SourceOfCall] = mem[SourceOfCall]
          /\ width' = width
          /\ height' = height
          /\ Top = Frame("convolve", "malloc") =>
                /\ new_pixel_data' \notin (DOMAIN mem) \cup FreedBuffers
                /\ new_pixel_data' # info_pixel_data
                /\ Len(mem'[new_pixel_data']) = width * height
          /\ Top = Frame("convolve", "return") =>
                /\ retval' = new_pixel_data
                /\ retval' # pixel_data
                /\ info_pixel_data' = pixel_data
                /\ Len(mem'[retval']) = Len(mem'[pixel_data])
                /\ Len(mem'[retval']) = width * height]_vars

\* C4's case: a convolve call has returned a destination that two workers
\* filled.
C4_Witness ==
    /\ \E f \in ConvFilters : Top = Frame(f, "replace")
    /\ retval = new_pixel_data
    /\ nthreads = 2 /\ width = 2 /\ height = 2
    /\ Stored = Workers

\* The sum of the nine products pixel.ch * weight for the pixel (y, x), as
\* a real number: its numerator over KDen.
ExactSum(src, k, w, h, outside, y, x, ch) ==
    LET P(yy, xx) == Load(src, Reflect(yy, h), Reflect(xx, w), w, h,
                          outside)[ch] * k[y - yy + 2][xx - x + 2]
        Row(yy) == P(yy, x - 1) + P(yy, x) + P(yy, x + 1)
    IN  Row(y - 1) + Row(y) + Row(y + 1)

\* A real sum n / KDen saturated to [0, 255] and then truncated.
SaturateThenTruncate(n) ==
    IF n > MAX_COLOR * KDen THEN MAX_COLOR
    ELSE IF n < 0 THEN 0 ELSE n \div KDen

\* C5: every channel a worker stores is the real-valued sum of the nine
\* products, saturated to [0, 255] and only then truncated.  (Stated for
\* the pixels all of whose loads lie inside the source buffer.)
C5_SumThenTruncate ==
    InConvolve =>
        \A i \in Stored :
            ~LoadsOutside(width, height, threads[i].last.y, threads[i].last.x)
            => \A ch \in Channels :
                  LastStored(i)[ch] =
                      SaturateThenTruncate(
                          ExactSum(mem[pixel_data], KernelOf(kernel), width,
                                   height, junk, threads[i].last.y,
                                   threads[i].last.x, ch))

\* The loads worker i made for the pixel it stored last.
LastLoads(i) == threads[i].last.loads

\* C6, as the specification words it: on an axis of length n >= 2 the
\* neighbour coordinate c is read at c when it is inside, at -c when
\* c < 0, and at 2n - 1 - c when c >= n.
C6_ReflectAsSpecified ==
    InConvolve =>
        \A i \in Stored : \A rd \in LastLoads(i) :
            /\ width >= 2 =>
                  rd.f_x = IF rd.xx < 0 THEN -rd.xx
                           ELSE IF rd.xx >= width THEN 2 * width - 1 - rd.xx
                           ELSE rd.xx
            /\ height >= 2 =>
                  rd.f_y = IF rd.yy < 0 THEN -rd.yy
                           ELSE IF rd.yy >= height THEN 2 * height - 1 - rd.yy
                           ELSE rd.yy

\* C6, amended: on an axis of length n >= 2 every neighbour coordinate c
\* lies in -1..n and is read at c when it is inside, at -c when c < 0, and
\* at 2n - 2 - c when c >= n (so c = n reads index n - 2); the index read
\* is inside the axis.
C6_ReflectAboutEdgePixel ==
    InConvolve =>
        \A i \in Stored : \A rd \in LastLoads(i) :
            /\ rd.xx \in (-1)..width
            /\ rd.yy \in (-1)..height
            /\ width >= 2 =>
                  /\ rd.f_x = IF rd.xx < 0 THEN -rd.xx
                              ELSE IF rd.xx >= width THEN 2 * width - 2 - rd.xx
                              ELSE rd.xx
                  /\ rd.f_x \in 0..(width - 1)
            /\ height >= 2 =>
                  /\ rd.f_y = IF rd.yy < 0 THEN -rd.yy
                              ELSE IF rd.yy >= height THEN 2 * height - 2 - rd.yy
                              ELSE rd.yy
                  /\ rd.f_y \in 0..(height - 1)

\* C6's case: a worker has stored a pixel of the last column and the last
\* row of a 2x2 image, so that one neighbour lies past the far edge on each
\* axis, and one of the first column, with a neighbour at -1.
C6_Witness ==
    /\ InConvolve
    /\ width = 2 /\ height = 2
    /\ \E i \in Stored : \E rd \in LastLoads(i) :
          rd.xx = width /\ rd.yy = height /\ rd.f_x = 0 /\ rd.f_y = 0
    /\ \E i \in Stored : \E rd \in LastLoads(i) : rd.xx = -1 /\ rd.f_x = 1

\* The sum of the nine weights of kernel k, times KDen.
WeightSum(k) ==
    k[1][1] + k[1][2] + k[1][3] + k[2][1] + k[2][2] + k[2][3]
    + k[3][1] + k[3][2] + k[3][3]

\* C7: on a 1x1 image each of the nine loads reads the pixel (0, 0), none
\* at a negative index or at an index >= 1, and every channel stored is the
\* pixel's channel times the sum of the nine weights, saturated.
C7_OnePixelLoadsInside ==
    (InConvolve /\ width = 1 /\ height = 1) =>
        \A i \in Stored :
            /\ \A rd \in LastLoads(i) : rd.f_x = 0 /\ rd.f_y = 0
            /\ \A ch \in Channels :
                  LastStored(i)[ch] =
                      SaturateThenTruncate(
                          mem[pixel_data][1][ch] * WeightSum(KernelOf(kernel)))

\* C8: what convolve returns to identity equals the image it was given, in
\* every channel of every pixel.
C8_IdentityReturnsImage ==
    Top = Frame("identity", "replace") => mem[retval] = mem[info_pixel_data]

\* C8's case: identity has convolved, with one worker per row, a 2x2 image
\* that is not uniform; every pixel has a neighbour past an edge.
C8_Witness ==
    /\ Top = Frame("identity", "replace")
    /\ nthreads = 2 /\ width = 2 /\ height = 2
    /\ Stored = Workers
    /\ mem[info_pixel_data][1] # mem[info_pixel_data][2]

\* C9: every channel of every pixel of a buffer is in [0, 255] once it has
\* been written, and the channel a worker stores is its accumulated sum
\* clamped: 255 for a sum above 255, 0 for a sum below 0, the sum otherwise.
C9_StoredIsClampedSum ==
    /\ \A b \in DOMAIN mem : \A i \in DOMAIN mem[b] :
          mem[b][i] = NoPixel
          \/ \A ch \in Channels : mem[b][i][ch] \in 0..255
    /\ InConvolve =>
          \A i \in Stored : \A ch \in Channels :
              LastStored(i)[ch] =
                  IF threads[i].last.sum[ch] > 255 THEN 255
                  ELSE IF threads[i].last.sum[ch] < 0 THEN 0
                  ELSE threads[i].last.sum[ch]

\* C9's case: one worker has just stored a pixel whose red sum is above
\* 255 and not 255 modulo 256, another one whose red sum is negative.
C9_Witness ==
    /\ InConvolve
    /\ \E i \in Stored :
          threads[i].last.sum["red"] > 255
          /\ threads[i].last.sum["red"] % 256 # 255
    /\ \E i \in Stored : threads[i].last.sum["red"] < 0

\* The largest of a set of numbers.
Largest(S) == CHOOSE m \in S : \A v \in S : m >= v

\* C10: while canny combines, each of its four Sobel buffers is the result
\* of convolving the image with the kernel of its name; every channel of a
\* pixel already combined is the largest of that channel at that pixel in
\* the four buffers; before the first pixel is combined the four buffers
\* hold the convolutions of the image as it then is; and no combine step
\* changes any of the four.
C10_CombineIsChannelMax ==
    /\ [](Top = Frame("canny_edge_detection", "combine") =>
            /\ \A k \in SobelNames :
                  /\ made[sobel[k]].kernel = k
                  /\ made[sobel[k]].source = info_pixel_data
            /\ \A i \in 0..(ci - 1) : \A ch \in Channels :
                  mem[info_pixel_data][i + 1][ch] =
                      Largest({mem[sobel[k]][i + 1][ch] : k \in SobelNames})
            /\ ci = 0 =>
                  \A k \in SobelNames :
                      mem[sobel[k]] =
                          ConvolveSeq(mem[info_pixel_data], KernelOf(k), width,
                                      height, made[sobel[k]].junk))
    /\ [][Top = Frame("canny_edge_detection", "combine") =>
             \A k \in SobelNames :
                 sobel'[k] = sobel[k]
                 /\ (sobel[k] \in DOMAIN mem' => mem'[sobel[k]] = mem[sobel[k]])
         ]_vars

\* C10's case: canny has combined every pixel of a 3x2 image, at one of
\* which the four responses differ.
C10_Witness ==
    /\ Top = Frame("canny_edge_detection", "combine")
    /\ ci = image_size
    /\ width = 3 /\ height = 2
    /\ \E i \in 1..image_size :
          mem[sobel["sobel_l"]][i]["red"] # mem[sobel["sobel_r"]][i]["red"]

\* The pixels of the destination that no worker has written.
Unwritten == {i \in 1..image_size : mem[new_pixel_data][i] = NoPixel}

\* C11: a convolve call on an image that has rows and columns is atomic
\* for its caller: the destination it is about to return has every pixel of
\* every row written, also when a worker could not be started, and a call
\* that ends in exit() for want of memory has no destination at all.
C11_ReturnsWholeGridOrFailsEarly ==
    /\ (Top = Frame("convolve", "return") /\ width >= 1 /\ height >= 1) =>
           Unwritten = {}
    /\ Top = Frame("convolve", "exit") => new_pixel_data = NULL

\* C12: for a width or a height that is not positive, convolve creates no
\* worker.
C12_RejectsBadDimensions ==
    (width <= 0 \/ height <= 0) =>
        \A i \in Workers : threads[i].state = "unborn"

\* How many times free has been called on buffer b.
TimesFreed(b) == Cardinality({k \in DOMAIN freed : freed[k] = b})

\* Whether the run is on an image with rows and columns and every
\* pthread_create has succeeded so far.
Untroubled == width >= 1 /\ height >= 1 /\ env_failures = 0

\* C13: when convolve has ended the process because malloc returned NULL,
\* in a run with no other trouble, every buffer obtained up to then -- the
\* image read, the grids the earlier stages produced, canny's Sobel
\* outputs -- has been freed, and freed once.
C13_FailureReleasesEachGridOnce ==
    (Top = Frame("convolve", "exit") /\ Untroubled) =>
        \A b \in 1..nalloc : TimesFreed(b) = 1

\* C14: once the function main called has returned, the only live buffer is
\* the one info->pixel_data points to and every other buffer the run
\* obtained has been freed exactly once; and while the run is under way the
\* buffers a stage reads or writes -- the image, the source and the
\* destination of a convolve call, the four Sobel outputs during the
\* combine loop -- are live.
C14_OneLiveBufferAfterPipeline ==
    /\ Top = Frame("main", "store") =>
           /\ DOMAIN mem = {info_pixel_data}
           /\ TimesFreed(info_pixel_data) = 0
           /\ \A b \in (1..nalloc) \ {info_pixel_data} : TimesFreed(b) = 1
    /\ (pc # Crashed /\ Top # Frame("main", "exit")) =>
           info_pixel_data \in DOMAIN mem
    /\ (InConvolve /\ Top # Frame("convolve", "malloc")) =>
           {pixel_data, new_pixel_data} \subseteq DOMAIN mem
    /\ Top = Frame("canny_edge_detection", "combine") =>
           {sobel[k] : k \in SobelNames} \subseteq DOMAIN mem

\* C14's case: canny has returned to main, having obtained five buffers
\* beside the image read -- the blurred image and the four Sobel outputs --
\* and freed five.
C14_Witness ==
    /\ Top = Frame("main", "store")
    /\ sobel["sobel_r"] # NULL
    /\ nalloc = 6
    /\ Len(freed) = 5
    /\ info_pixel_data = 2

\* C15: on an image with rows and columns, global_pixel_data is always
\* NULL or a live buffer, so that cleanup, whenever it runs, frees no buffer
\* a second time, and the SIGINT handler frees no buffer that running
\* workers are reading.
C15_GlobalIsNullOrLive ==
    (width >= 1 /\ height >= 1) =>
        /\ global_pixel_data = NULL \/ global_pixel_data \in DOMAIN mem
        /\ \A b \in 1..nalloc : TimesFreed(b) <= 1
        /\ (Top = Frame("SIGINT_handler", "exit") /\ pc[2][1] = "convolve") =>
               \A i \in Workers :
                  threads[i].state = "running" => pixel_data \in DOMAIN mem

====
